---- MODULE Spec2Model ----
(***************************************************************************)
(* Model of app.py, the stock-trend dashboard: three memoized fetchers      *)
(* (get_exchange_rate, get_stock_data, get_live_price), the chart renderer  *)
(* plot_stock_chart, and the page script that is re-executed top to bottom  *)
(* on every interaction (prediction form, chart section, watchlist loop).   *)
(*                                                                         *)
(* Numbers.  Python floats are modelled as exact rationals [n, d] with      *)
(* d > 0 (not normalised): Mul and Sub build the result the way the         *)
(* arithmetic does, Geq compares by cross-multiplication.  Floating-point   *)
(* rounding, NaN and infinities are outside the model.                      *)
(*                                                                         *)
(* Provider.  yfinance is modelled as a market state mkt; the histories     *)
(* and the instrument metadata it would return are operators of mkt, and    *)
(* MarketMove changes mkt.  The provider never raises.  A run of the script  *)
(* is short against the time-to-live values: the clock and the market move  *)
(* between runs.                                                            *)
(***************************************************************************)
EXTENDS Integers, Sequences, FiniteSets, TLC

VARIABLES
    now,               \* wall clock, seconds
    mkt,               \* state of the market-data provider
    cache,             \* st.cache_data stores: [rate, stock, live], key -> [value, expires]
    fetched,           \* history: per fetcher and key, the last execution of its body
    calls,             \* history: the fetcher calls made by the latest step of the script
    pc,                \* position of the page script
    oc, hl,            \* number inputs of the prediction form
    input_currency,    \* "Prediction Currency" selector
    pressed,           \* st.button("Predict") returned True in this run
    symbol,            \* "Stock Symbol" text input
    time_range,        \* "Time Range" radio
    display_currency,  \* "Display Currency" selector
    rate,              \* script variable rate
    df,                \* script variable df (Close column of the chart's frame)
    base_currency,     \* script variable base_currency
    price, change,     \* script variables of the watchlist loop
    i,                 \* index of the watchlist loop in TOP_STOCKS
    pred,              \* script variable pred
    modelCalls,        \* arguments of the model.predict calls of this run
    badge,             \* st.success / st.error of the prediction form
    chart,             \* the figure given to st.plotly_chart
    notices,           \* st.warning messages of this run
    rows               \* watchlist rows written by st.markdown in this run

vars == << now, mkt, cache, fetched, calls, pc, oc, hl, input_currency, pressed,
           symbol, time_range, display_currency, rate, df, base_currency,
           price, change, i, pred, modelCalls, badge, chart, notices, rows >>

(***************************************************************************)
(* Bounds of the exploration                                                *)
(***************************************************************************)
MaxTime == 600
MaxMkt == 1

(***************************************************************************)
(* Program constants                                                        *)
(***************************************************************************)
MODEL_CURRENCY == "INR"
TTL_RATE == 600
TTL_STOCK == 600
TTL_LIVE == 120

TOP_STOCKS ==
    << [sym |-> "MRF.BO",      name |-> "MRF Ltd"],
       [sym |-> "RELIANCE.NS", name |-> "Reliance"],
       [sym |-> "TCS.NS",      name |-> "TCS"],
       [sym |-> "INFY.NS",     name |-> "Infosys"],
       [sym |-> "HDFCBANK.NS", name |-> "HDFC Bank"],
       [sym |-> "SBIN.NS",     name |-> "SBI"],
       [sym |-> "BEL.NS",      name |-> "Bharat Electronics"],
       [sym |-> "ITC.NS",      name |-> "ITC"] >>

CurrencyOptions == <<"USD", "INR", "EUR", "GBP">>
TimeRangeOptions == <<"1D", "1W", "1M", "3M", "6M", "YTD", "1Y", "2Y", "5Y", "10Y", "ALL">>

period_map(label) ==
    CASE label = "1D"  -> "1d"
      [] label = "1W"  -> "5d"
      [] label = "1M"  -> "1mo"
      [] label = "3M"  -> "3mo"
      [] label = "6M"  -> "6mo"
      [] label = "YTD" -> "ytd"
      [] label = "1Y"  -> "1y"
      [] label = "2Y"  -> "2y"
      [] label = "5Y"  -> "5y"
      [] label = "10Y" -> "10y"
      [] label = "ALL" -> "max"
      [] OTHER         -> "1mo"

(***************************************************************************)
(* Values                                                                   *)
(***************************************************************************)
None == [none |-> TRUE]

Q(a, b) == [n |-> a, d |-> b]
R(a) == Q(a, 1)
One == R(1)

Mul(x, y) == [n |-> x.n * y.n, d |-> x.d * y.d]
Sub(x, y) == [n |-> x.n * y.d - y.n * x.d, d |-> x.d * y.d]
Geq(x, y) == x.n * y.d >= y.n * x.d

Last(s) == s[Len(s)]
Scale(s, r) == [k \in 1..Len(s) |-> Mul(s[k], r)]

(***************************************************************************)
(* Inputs explored                                                          *)
(***************************************************************************)
Currencies == {CurrencyOptions[1], CurrencyOptions[2]}
Symbols == {"AAPL", "NEWCO"}
TimeRanges == {TimeRangeOptions[3]}
OcValues == {R(-3)}
HlValues == {R(5)}
Labels == {0, 1, 2}
Ticks == {TTL_STOCK \div 2}

(***************************************************************************)
(* The market-data provider (yfinance) in market state m                    *)
(***************************************************************************)
WatchIndex(sym) == CHOOSE k \in 1..Len(TOP_STOCKS) : TOP_STOCKS[k].sym = sym
IsWatched(sym) == \E k \in 1..Len(TOP_STOCKS) : TOP_STOCKS[k].sym = sym

\* Ticker("{frm}{to}=X").history(period="1d"): the Close column
FxHistory(m, frm, to) ==
    IF frm = "USD" /\ to = "INR"
    THEN IF m % 2 = 0 THEN << R(80), R(83 + m) >> ELSE << >>
    ELSE IF frm = "INR" /\ to = "USD"
    THEN IF m % 2 = 0 THEN << Q(1, 83 + m) >> ELSE << Q(1, 80), Q(1, 84 + m) >>
    ELSE << >>

\* Ticker(sym).history(period=period): the Close column.  NEWCO is unknown
\* to the provider in even market states and has one bar in odd ones.
StockHistory(m, sym, period) ==
    IF sym = "AAPL" /\ period = "1mo"
    THEN IF m % 2 = 0 THEN << R(10), R(8), R(12) >> ELSE << R(12 + m), R(8), R(10) >>
    ELSE IF sym = "NEWCO" /\ period = "1mo"
    THEN IF m % 2 = 0 THEN << >> ELSE << R(7 + m) >>
    ELSE IF IsWatched(sym) /\ period = "2d"
    THEN LET k == WatchIndex(sym)
         IN  [j \in 1..((k + m) % 4) |-> R(10 * k + ((j * (j + m) + k) % 3))]
    ELSE << >>

\* Ticker(sym).fast_info: the "currency" entry, "" when the entry is missing
FastInfo(m, sym) ==
    IF sym = "AAPL" THEN "USD"
    ELSE IF sym = "NEWCO" THEN (IF m % 2 = 0 THEN "" ELSE "INR")
    ELSE IF IsWatched(sym) /\ (WatchIndex(sym) + m) % 3 # 0 THEN "INR"
    ELSE ""

\* ticker.fast_info.get("currency", "USD")
FastInfoCurrency(m, sym) ==
    IF FastInfo(m, sym) = "" THEN "USD" ELSE FastInfo(m, sym)

(***************************************************************************)
(* Bodies of the memoized fetchers: the value returned and the number of    *)
(* history requests sent to the provider while computing it                 *)
(***************************************************************************)
get_exchange_rate_always_queries(m, frm, to) ==
    LET d == FxHistory(m, frm, to)
    IN  [value |-> IF d # << >> THEN Last(d) ELSE One, queries |-> 1]

get_exchange_rate_first_close(m, frm, to) ==
    IF frm = to
    THEN [value |-> One, queries |-> 0]
    ELSE LET d == FxHistory(m, frm, to)
         IN  [value |-> IF d # << >> THEN d[1] ELSE One, queries |-> 1]

get_exchange_rate(m, frm, to) ==
    IF frm = to
    THEN [value |-> One, queries |-> 0]
    ELSE LET d == FxHistory(m, frm, to)
         IN  [value |-> IF d # << >> THEN Last(d) ELSE One, queries |-> 1]

get_stock_data(m, sym, label) ==
    [value   |-> [df       |-> StockHistory(m, sym, period_map(label)),
                  currency |-> FastInfoCurrency(m, sym)],
     queries |-> 1]

get_live_price_since_first(m, sym) ==
    LET d == StockHistory(m, sym, "2d")
    IN  IF Len(d) < 2
        THEN [value   |-> [price |-> None, change |-> None,
                           currency |-> FastInfoCurrency(m, sym)],
              queries |-> 1]
        ELSE [value   |-> [price    |-> d[Len(d)],
                           change   |-> Sub(d[Len(d)], d[1]),
                           currency |-> FastInfoCurrency(m, sym)],
              queries |-> 1]

get_live_price(m, sym) ==
    LET d == StockHistory(m, sym, "2d")
    IN  IF Len(d) < 2
        THEN [value   |-> [price |-> None, change |-> None,
                           currency |-> FastInfoCurrency(m, sym)],
              queries |-> 1]
        ELSE [value   |-> [price    |-> d[Len(d)],
                           change   |-> Sub(d[Len(d)], d[Len(d) - 1]),
                           currency |-> FastInfoCurrency(m, sym)],
              queries |-> 1]

(***************************************************************************)
(* st.cache_data(ttl=...): a keyed store of (value, expiry); an entry is    *)
(* served while the clock is before its expiry, otherwise the body runs and *)
(* its result overwrites the entry.  The caller receives a private copy.    *)
(***************************************************************************)
Put(f, k, v) == [x \in (DOMAIN f) \cup {k} |-> IF x = k THEN v ELSE f[x]]

TTL(fn) ==
    CASE fn = "rate"  -> TTL_RATE
      [] fn = "stock" -> TTL_STOCK
      [] fn = "live"  -> TTL_LIVE

IsFresh_forever(entry, t) == TRUE

IsFresh(entry, t) == t < entry.expires

cache_data(store, key, ttl, t, body) ==
    IF key \in DOMAIN store /\ IsFresh(store[key], t)
    THEN [hit |-> TRUE, value |-> store[key].value, queries |-> 0, store |-> store]
    ELSE [hit |-> FALSE, value |-> body.value, queries |-> body.queries,
          store |-> Put(store, key, [value |-> body.value, expires |-> t + ttl])]

\* The entry of the store after the caller has written `written` into the
\* frame the cache handed out: the caller's frame is a copy, the entry stays.
AfterCallerWrite_shared(entry, written) == [entry EXCEPT !.value.df = written]

AfterCallerWrite(entry, written) == entry

Body(fn, key, m) ==
    CASE fn = "rate"  -> get_exchange_rate(m, key[1], key[2])
      [] fn = "stock" -> get_stock_data(m, key[1], key[2])
      [] fn = "live"  -> get_live_price(m, key)

Memo(fn, key) == cache_data(cache[fn], key, TTL(fn), now, Body(fn, key, mkt))

\* The record of a call of fetcher fn at script position site with outcome res
CallRec(fn, key, site, res) ==
    [fn |-> fn, key |-> key, site |-> site, at |-> now, mkt |-> mkt,
     prev |-> IF key \in DOMAIN fetched[fn] THEN fetched[fn][key] ELSE None,
     ran |-> ~res.hit, queries |-> res.queries, result |-> res.value]

\* The executions of fetcher bodies, after a call of fn with outcome res
Noted(fn, key, res, f) ==
    IF res.hit THEN f
    ELSE [f EXCEPT ![fn] = Put(@, key, [at |-> now, result |-> res.value,
                                         rescaled |-> FALSE])]

\* ... after the caller has multiplied the frame it got for key by factor
Rescaled(key, factor, f) ==
    IF factor = One THEN f ELSE [f EXCEPT !.stock[key].rescaled = TRUE]

(***************************************************************************)
(* plot_stock_chart                                                         *)
(***************************************************************************)
PlotUp_strict(d) == ~Geq(d[1], d[Len(d)])

PlotUp(d) == Geq(d[Len(d)], d[1])

plot_stock_chart(d, sym, label, currency) ==
    LET up == PlotUp(d)
    IN  [color       |-> IF up THEN "green" ELSE "red",
         fill        |-> IF up THEN "rgba(0,255,0,0.25)" ELSE "rgba(255,0,0,0.25)",
         y           |-> d,
         title       |-> <<sym, label>>,
         yaxis_title |-> currency]

(***************************************************************************)
(* The page script                                                          *)
(***************************************************************************)
inputs == << oc, hl, input_currency, pressed, symbol, time_range, display_currency >>
outputs == << badge, chart, notices, rows >>
world == << now, mkt >>

\* Before a run: widget defaults, no script variable, an empty page
Fresh ==
    /\ calls = << >>
    /\ oc = R(0) /\ hl = R(0)
    /\ input_currency = CurrencyOptions[2]
    /\ pressed = FALSE
    /\ symbol = "AAPL"
    /\ time_range = TimeRangeOptions[3]
    /\ display_currency = CurrencyOptions[1]
    /\ rate = None /\ df = None /\ base_currency = None
    /\ price = None /\ change = None /\ i = 0 /\ pred = None
    /\ modelCalls = << >> /\ badge = None /\ chart = None
    /\ notices = << >> /\ rows = << >>

Init ==
    /\ now = 0
    /\ mkt = 0
    /\ cache = [rate |-> << >>, stock |-> << >>, live |-> << >>]
    /\ fetched = [rate |-> << >>, stock |-> << >>, live |-> << >>]
    /\ pc = "idle"
    /\ Fresh

\* A widget interaction starts a run of the script from the top.
Interact ==
    /\ pc = "idle"
    /\ oc' \in OcValues /\ hl' \in HlValues
    /\ pressed' \in BOOLEAN
    /\ input_currency' \in (IF pressed' THEN Currencies ELSE {CurrencyOptions[2]})
    /\ symbol' \in Symbols
    /\ time_range' \in TimeRanges
    /\ display_currency' \in Currencies
    /\ pc' = "predict"
    /\ UNCHANGED << world, cache, fetched, calls, rate, df, base_currency, price,
                    change, i, pred, modelCalls, outputs >>

PredictKey == <<input_currency, MODEL_CURRENCY>>

Features_swapped(a, b, factor) == <<Mul(b, factor), Mul(a, factor)>>

Features(a, b, factor) == <<Mul(a, factor), Mul(b, factor)>>

Badge(label) == IF label = 1 THEN "UP" ELSE "DOWN"

\* if st.button("Predict"): rate lookup, model.predict, badge
PredictSection ==
    /\ pc = "predict"
    /\ IF pressed
       THEN LET res == Memo("rate", PredictKey)
            IN  /\ calls' = << CallRec("rate", PredictKey, "predict", res) >>
                /\ fetched' = Noted("rate", PredictKey, res, fetched)
                /\ cache' = [cache EXCEPT !.rate = res.store]
                /\ rate' = res.value
                /\ modelCalls' = Append(modelCalls, Features(oc, hl, res.value))
                /\ \E out \in Labels :
                      /\ pred' = out
                      /\ badge' = Badge(out)
       ELSE /\ calls' = << >>
            /\ UNCHANGED << cache, fetched, rate, modelCalls, pred, badge >>
    /\ pc' = "chart"
    /\ UNCHANGED << world, inputs, df, base_currency, price, change, i, chart, notices, rows >>

ChartKey == <<symbol, time_range>>

\* df, base_currency = get_stock_data(symbol, time_range), then either the
\* rate lookup, the in-place rescale and the plot, or the warning
ChartSection ==
    /\ pc = "chart"
    /\ LET got == Memo("stock", ChartKey)
           d == got.value.df
           cur == got.value.currency
           c1 == CallRec("stock", ChartKey, "chart", got)
       IN  /\ base_currency' = cur
           /\ IF d # << >>
              THEN LET res == Memo("rate", <<cur, display_currency>>)
                       scaled == Scale(d, res.value)
                   IN  /\ calls' = << c1, CallRec("rate", <<cur, display_currency>>, "chart", res) >>
                       /\ fetched' = Rescaled(ChartKey, res.value,
                                           Noted("rate", <<cur, display_currency>>, res,
                                                 Noted("stock", ChartKey, got, fetched)))
                       /\ cache' = [cache EXCEPT
                                       !.rate = res.store,
                                       !.stock = [got.store EXCEPT
                                                     ![ChartKey] = AfterCallerWrite(@, scaled)]]
                       /\ rate' = res.value
                       /\ df' = scaled
                       /\ chart' = plot_stock_chart(scaled, symbol, time_range, display_currency)
                       /\ UNCHANGED notices
              ELSE /\ calls' = << c1 >>
                   /\ fetched' = Noted("stock", ChartKey, got, fetched)
                   /\ cache' = [cache EXCEPT !.stock = got.store]
                   /\ df' = d
                   /\ notices' = Append(notices, [site |-> "chart", text |-> "No data available"])
                   /\ UNCHANGED << rate, chart >>
    /\ pc' = "watch"
    /\ i' = 1
    /\ UNCHANGED << world, inputs, price, change, pred, modelCalls, badge, rows >>

\* The currency the loop body converts from: base_currency, rebound by the
\* unpacking of get_live_price's result
RowCurrency_stale(live_currency, earlier_currency) == earlier_currency

RowCurrency(live_currency, earlier_currency) == live_currency

Convert(amount, factor) == Mul(amount, factor)

RowClass(c) == IF Geq(c, R(0)) THEN "price-up" ELSE "price-down"
RowSign(c) == IF Geq(c, R(0)) THEN "+" ELSE ""

\* One iteration of "for sym, name in TOP_STOCKS"
WatchRow ==
    /\ pc = "watch"
    /\ LET sym == TOP_STOCKS[i].sym
           got == Memo("live", sym)
           cur == RowCurrency(got.value.currency, base_currency)
           c1 == CallRec("live", sym, "watch", got)
       IN  /\ base_currency' = cur
           /\ IF got.value.price = None
              THEN /\ calls' = << c1 >>
                   /\ fetched' = Noted("live", sym, got, fetched)
                   /\ cache' = [cache EXCEPT !.live = got.store]
                   /\ price' = None
                   /\ change' = None
                   /\ UNCHANGED << rate, rows >>
              ELSE LET res == Memo("rate", <<cur, display_currency>>)
                       p == Convert(got.value.price, res.value)
                       c == Convert(got.value.change, res.value)
                   IN  /\ calls' = << c1, CallRec("rate", <<cur, display_currency>>, "watch", res) >>
                       /\ fetched' = Noted("rate", <<cur, display_currency>>, res,
                                           Noted("live", sym, got, fetched))
                       /\ cache' = [cache EXCEPT !.live = got.store, !.rate = res.store]
                       /\ rate' = res.value
                       /\ price' = p
                       /\ change' = c
                       /\ rows' = Append(rows, [sym |-> sym, name |-> TOP_STOCKS[i].name,
                                                cls |-> RowClass(c), sign |-> RowSign(c),
                                                price |-> p, change |-> c])
    /\ i' = i + 1
    /\ pc' = IF i = Len(TOP_STOCKS) THEN "end" ELSE "watch"
    /\ UNCHANGED << world, inputs, df, pred, modelCalls, badge, chart, notices >>

\* The script has run to its last line: its variables are gone, and the next
\* interaction sets every widget value and redraws the page.
EndRun ==
    /\ pc = "end"
    /\ pc' = "idle"
    /\ calls' = << >>
    /\ oc' = R(0) /\ hl' = R(0)
    /\ input_currency' = CurrencyOptions[2]
    /\ pressed' = FALSE
    /\ symbol' = "AAPL"
    /\ time_range' = TimeRangeOptions[3]
    /\ display_currency' = CurrencyOptions[1]
    /\ rate' = None /\ df' = None /\ base_currency' = None
    /\ price' = None /\ change' = None /\ i' = 0 /\ pred' = None
    /\ modelCalls' = << >> /\ badge' = None /\ chart' = None
    /\ notices' = << >> /\ rows' = << >>
    /\ UNCHANGED << world, cache, fetched >>

\* Time passes.
Advance ==
    /\ pc = "idle"
    /\ \E dt \in Ticks : now + dt <= MaxTime /\ now' = now + dt
    /\ UNCHANGED << mkt, cache, fetched, calls, pc, inputs, rate, df, base_currency,
                    price, change, i, pred, modelCalls, outputs >>

\* The provider's data changes.
MarketMove ==
    /\ pc = "idle"
    /\ mkt < MaxMkt
    /\ mkt' = mkt + 1
    /\ UNCHANGED << now, cache, fetched, calls, pc, inputs, rate, df, base_currency,
                    price, change, i, pred, modelCalls, outputs >>

Next ==
    \/ Interact
    \/ PredictSection
    \/ ChartSection
    \/ WatchRow
    \/ EndRun
    \/ Advance
    \/ MarketMove

Spec == Init /\ [][Next]_vars

(***************************************************************************)
(* Properties                                                               *)
(***************************************************************************)
Known(c) == c.prev # None
Within(c) == Known(c) /\ c.at < c.prev.at + TTL(c.fn)
Expired(c) == Known(c) /\ c.at >= c.prev.at + TTL(c.fn)
SameCurrency(c) == c.fn = "rate" /\ c.key[1] = c.key[2]
JustDrew == pc = "watch" /\ i = 1
JustRow == pc \in {"watch", "end"} /\ i > 1

\* C1: a call of a memoized fetcher whose key was fetched less than one
\* time-to-live ago returns exactly what that fetch returned and sends no
\* request to the provider, whatever the caller did to the frame it was given
\* and whatever the provider would answer now.
C1_HitReturnsFirstFetch ==
    \A k \in DOMAIN calls :
        Within(calls[k]) =>
            /\ calls[k].result = calls[k].prev.result
            /\ calls[k].queries = 0
            /\ ~calls[k].ran

\* A get_stock_data hit in a later moment than the fetch, on a non-empty
\* series that a caller rescaled by a factor other than 1, while the provider
\* would now answer something else.
C1_Witness ==
    \E k \in DOMAIN calls :
        /\ calls[k].fn = "stock"
        /\ Within(calls[k])
        /\ calls[k].at > calls[k].prev.at
        /\ calls[k].prev.rescaled
        /\ calls[k].result.df # << >>
        /\ get_stock_data(mkt, calls[k].key[1], calls[k].key[2]).value # calls[k].result

\* What a call past expiry does, but for the number of provider requests
MissRefreshes(c) ==
    /\ c.ran
    /\ c.result = Body(c.fn, c.key, c.mkt).value
    /\ cache[c.fn][c.key] = [value |-> c.result, expires |-> c.at + TTL(c.fn)]

TimeToLiveValues ==
    /\ TTL("rate") = 600 /\ TTL("stock") = 600 /\ TTL("live") = 120
    /\ TTL("live") < TTL("stock")

\* C2 (as claimed): a call made once the entry's time-to-live has elapsed
\* (600 s for rate and history, 120 s for the live snapshot, the latter the
\* shorter) is a miss that performs exactly one provider fetch, returns the
\* fresh result and overwrites the entry.
C2_MissFetchesOnce ==
    /\ TimeToLiveValues
    /\ \A k \in DOMAIN calls :
          Expired(calls[k]) => MissRefreshes(calls[k]) /\ calls[k].queries = 1

\* C2 (amended): as above, except that get_exchange_rate with from = to
\* recomputes 1.0 without any provider fetch.
C2_MissRefetches ==
    /\ TimeToLiveValues
    /\ \A k \in DOMAIN calls :
          Expired(calls[k]) =>
              /\ MissRefreshes(calls[k])
              /\ calls[k].queries = IF SameCurrency(calls[k]) THEN 0 ELSE 1

\* One watchlist row whose live snapshot had expired and was fetched anew with
\* a different result, and whose same-currency rate had expired and was
\* recomputed without a provider request.
C2_Witness ==
    /\ Len(calls) = 2
    /\ calls[1].fn = "live" /\ Expired(calls[1]) /\ calls[1].queries = 1
    /\ calls[1].result # calls[1].prev.result
    /\ SameCurrency(calls[2]) /\ Expired(calls[2]) /\ calls[2].queries = 0

\* C3: get_exchange_rate(X, X) returns exactly 1.0 in every cache state and
\* sends no request to the provider.
C3_SameCurrencyIsOne ==
    \A k \in DOMAIN calls :
        SameCurrency(calls[k]) => calls[k].result = One /\ calls[k].queries = 0

\* A watchlist row converted with get_exchange_rate(X, X), served from an
\* entry that an earlier run computed
C3_Witness ==
    /\ Len(calls) = 2
    /\ SameCurrency(calls[2]) /\ ~calls[2].ran
    /\ fetched.rate[calls[2].key].at < now

Unconverted(c) ==
    CASE c.site = "predict" -> modelCalls = << <<oc, hl>> >>
      [] c.site = "chart"   -> chart.y = calls[1].result.df
      [] c.site = "watch"   -> /\ rows[Len(rows)].price = calls[1].result.price
                               /\ rows[Len(rows)].change = calls[1].result.change

\* C4: for from # to the body of get_exchange_rate returns the last close of
\* the provider's one-day history of the pair, or 1.0 without an error when
\* that history is empty; a caller given 1.0 passes its amounts on unchanged
\* and the page carries no notice about it.
C4_LastCloseOrOne ==
    /\ \A k \in DOMAIN calls :
          LET c == calls[k]
              h == FxHistory(c.mkt, c.key[1], c.key[2])
          IN  /\ (c.fn = "rate" /\ ~SameCurrency(c) /\ c.ran) =>
                     /\ c.queries = 1
                     /\ c.result = IF Len(h) = 0 THEN One ELSE h[Len(h)]
              /\ (c.fn = "rate" /\ c.result = One) => Unconverted(c)
    /\ \A n \in DOMAIN notices :
          notices[n] = [site |-> "chart", text |-> "No data available"]

\* The chart of a dollar-quoted series drawn in rupees while the provider has
\* no USDINR=X history
C4_Witness ==
    /\ JustDrew /\ Len(calls) = 2
    /\ calls[2].key = <<"USD", "INR">> /\ calls[2].ran
    /\ FxHistory(calls[2].mkt, "USD", "INR") = << >>
    /\ chart.y = calls[1].result.df
    /\ notices = << >>

\* C5: the body of get_live_price returns (None, None, currency) when the
\* two-day history has fewer than two bars, else the latest close and the
\* latest close minus the one before it; the currency is the metadata
\* currency, "USD" when the metadata has none.
C5_LiveSnapshot ==
    \A k \in DOMAIN calls :
        LET c == calls[k]
            h == StockHistory(c.mkt, c.key, "2d")
            meta == FastInfo(c.mkt, c.key)
        IN  (c.fn = "live" /\ c.ran) =>
                /\ c.result.currency = IF meta = "" THEN "USD" ELSE meta
                /\ IF Len(h) \in {0, 1}
                   THEN c.result.price = None /\ c.result.change = None
                   ELSE /\ c.result.price = h[Len(h)]
                        /\ c.result.change = Sub(h[Len(h)], h[Len(h) - 1])

\* A snapshot computed from exactly one bar of an instrument without currency
\* metadata
C5_Witness ==
    \E k \in DOMAIN calls :
        /\ calls[k].fn = "live" /\ calls[k].ran
        /\ Len(StockHistory(calls[k].mkt, calls[k].key, "2d")) = 1
        /\ FastInfo(calls[k].mkt, calls[k].key) = ""
        /\ calls[k].result = [price |-> None, change |-> None, currency |-> "USD"]

\* C6: a fetch without usable data is surfaced as a "no data" notice: an empty
\* series means no chart, no rate lookup and the chart's warning; a null live
\* snapshot means a notice for that watchlist row.
C6_NoDataNoticed ==
    /\ (JustDrew /\ df = << >>) =>
          /\ chart = None
          /\ \A k \in DOMAIN calls : calls[k].fn # "rate"
          /\ \E n \in DOMAIN notices : notices[n].site = "chart"
    /\ (JustRow /\ price = None) =>
          \E n \in DOMAIN notices : notices[n].site = "watch"

RowStyled(r) ==
    /\ r.cls = IF Geq(r.change, R(0)) THEN "price-up" ELSE "price-down"
    /\ r.sign = IF Geq(r.change, R(0)) THEN "+" ELSE ""

\* C7: a finished run shows exactly 8 watchlist rows, one per entry of
\* TOP_STOCKS and in its order, styled by the sign of the converted change.
C7_EightRows ==
    pc = "end" =>
        /\ Len(rows) = 8
        /\ \A k \in DOMAIN rows :
              /\ rows[k].sym = TOP_STOCKS[k].sym
              /\ rows[k].name = TOP_STOCKS[k].name
              /\ RowStyled(rows[k])

\* C8: a rendered watchlist row shows the price and the change that
\* get_live_price returned for its symbol, both multiplied by
\* get_exchange_rate(currency returned by get_live_price, Display Currency of
\* this run).
C8_RowConverted ==
    (JustRow /\ price # None) =>
        /\ Len(calls) = 2
        /\ calls[1].fn = "live" /\ calls[1].key = TOP_STOCKS[i - 1].sym
        /\ calls[2].fn = "rate"
        /\ calls[2].key = <<calls[1].result.currency, display_currency>>
        /\ rows[Len(rows)].sym = TOP_STOCKS[i - 1].sym
        /\ rows[Len(rows)].price = Mul(calls[1].result.price, calls[2].result)
        /\ rows[Len(rows)].change = Mul(calls[1].result.change, calls[2].result)

\* The first row, quoted in rupees and shown in dollars at a rate other than
\* 1, after the chart section left base_currency at "USD"
C8_Witness ==
    /\ pc = "watch" /\ i = 2 /\ price # None
    /\ symbol = "AAPL" /\ display_currency = "USD"
    /\ calls[1].result.currency = "INR"
    /\ calls[2].result # One
    /\ rows[1].price = Mul(calls[1].result.price, calls[2].result)

\* C9: pressing Predict invokes the classifier once, with (oc * r, hl * r) in
\* this order, r = get_exchange_rate(input currency, "INR"); r is exactly 1.0
\* and the features are (oc, hl) when the input currency is "INR"; the badge
\* is UP exactly when the classifier answers 1 and DOWN otherwise; without
\* the press the classifier is not invoked.
C9_Prediction ==
    /\ pc = "chart" =>
          IF pressed
          THEN /\ Len(calls) = 1
               /\ calls[1].fn = "rate" /\ calls[1].key = <<input_currency, "INR">>
               /\ modelCalls = << <<Mul(oc, calls[1].result), Mul(hl, calls[1].result)>> >>
               /\ input_currency = "INR" =>
                     calls[1].result = One /\ modelCalls = << <<oc, hl>> >>
               /\ badge = IF pred = 1 THEN "UP" ELSE "DOWN"
          ELSE modelCalls = << >> /\ badge = None /\ calls = << >>
    /\ pc \in {"watch", "end"} => Len(modelCalls) = IF pressed THEN 1 ELSE 0

\* A prediction on dollar inputs at a rate other than 1, answered 1
C9_Witness ==
    /\ pc = "chart" /\ pressed /\ input_currency = "USD"
    /\ calls[1].result # One
    /\ modelCalls[1][1] # oc /\ modelCalls[1][1] # modelCalls[1][2]
    /\ pred = 1 /\ badge = "UP"

ShownUp(c) == c.color = "green" /\ c.fill = "rgba(0,255,0,0.25)"
ShownDown(c) == c.color = "red" /\ c.fill = "rgba(255,0,0,0.25)"

\* C10: the chart has up styling exactly when the last close of the plotted
\* series is >= its first close and down styling otherwise, whatever lies
\* between; a one-point series is up; and the series as fetched, before its
\* rescale by the positive rate, is classified the same way.
C10_Direction ==
    (JustDrew /\ chart # None) =>
        LET y == chart.y
            d == calls[1].result.df
            r == calls[2].result
        IN  /\ IF Geq(y[Len(y)], y[1]) THEN ShownUp(chart) ELSE ShownDown(chart)
            /\ Len(y) = 1 => ShownUp(chart)
            /\ r.n > 0 /\ r.d > 0
            /\ Len(y) = Len(d) /\ \A j \in DOMAIN d : y[j] = Mul(d[j], r)
            /\ Geq(d[Len(d)], d[1]) <=> Geq(y[Len(y)], y[1])

\* A series that dips below its start and recovers above it, rescaled by a
\* rate other than 1 and drawn up
C10_Witness ==
    /\ JustDrew /\ chart # None
    /\ Len(chart.y) = 3
    /\ ~Geq(chart.y[2], chart.y[1])
    /\ calls[2].result # One
    /\ ShownUp(chart)
====
